---- MODULE Spec2Model ----
(***************************************************************************)
(* Caesar-shift cryptanalysis engine of activity-04/q1-d.py.               *)
(*                                                                         *)
(* A text (Python str) is a sequence of Unicode code points.  The          *)
(* str methods the source calls (upper, lower, isupper, isalpha, split)    *)
(* are modelled by what CPython does on the code points the model draws:   *)
(* the ASCII letters, ASCII space / digits / punctuation, and the          *)
(* non-ASCII code points whose upper() reaches the ASCII alphabet or       *)
(* changes their letter class.                                             *)
(*                                                                         *)
(* A float is a record [inf, v]: inf for float("inf"), otherwise v is the  *)
(* value in thousandths (fixed point; each quotient is rounded down).      *)
(***************************************************************************)
EXTENDS Integers, Sequences, FiniteSets

\* Longest text enumerated exhaustively over Chars.
MaxLen == 2

----------------------------------------------------------------------------
(* Python str methods on one code point *)

\* ch.upper(): a sequence, since upper() of one character may be several.
Upper(c) ==
  CASE c \in 97..122 -> <<c - 32>>      \* a..z -> A..Z
    [] c = 305   -> <<73>>              \* dotless i    -> I
    [] c = 383   -> <<83>>              \* long s       -> S
    [] c = 64262 -> <<83, 84>>          \* ligature st  -> ST
    [] c = 496   -> <<74, 780>>         \* j with caron -> J + combining caron
    [] c = 837   -> <<921>>             \* combining ypogegrammeni -> Greek capital iota
    [] OTHER     -> <<c>>

\* ch.isupper()
IsUpperChar(c) == c \in 65..90 \/ c = 921

\* ch.isalpha()
IsAlpha(c) == c \in 65..90 \/ c \in 97..122 \/ c \in {305, 383, 64262, 496, 921}

\* ch.isspace(), the separator test of str.split()
IsSpace(c) == c = 32

\* dec.lower() for dec taken from ALPH
LowerAscii(c) == IF c \in 65..90 THEN c + 32 ELSE c

RECURSIVE UpperText(_)
\* text.upper()
UpperText(t) == IF t = <<>> THEN <<>> ELSE Upper(Head(t)) \o UpperText(Tail(t))

----------------------------------------------------------------------------
(* Module constants *)

\* string.ascii_uppercase
ALPH == [i \in 1..26 |-> 64 + i]

\* up in ALPH: Python's substring test
InALPH(up) ==
  \E i \in 0..(26 - Len(up)) : \A k \in 1..Len(up) : ALPH[i + k] = up[k]

\* ALPH.index(up): lowest zero-based offset at which up occurs
IndexALPH(up) ==
  CHOOSE i \in 0..(26 - Len(up)) :
    /\ \A k \in 1..Len(up) : ALPH[i + k] = up[k]
    /\ \A j \in 0..(i - 1) : \E k \in 1..Len(up) : ALPH[j + k] # up[k]

----------------------------------------------------------------------------
(* caesar_decrypt *)

\* The decrypted letter appended as it comes from ALPH, its case not restored.
DecryptCharNoCase(ch, shift) ==
  LET up == Upper(ch) IN
  IF InALPH(up) THEN ALPH[((IndexALPH(up) - shift) % 26) + 1] ELSE ch

\* The shift applied forward (+ shift) instead of backward.
DecryptCharForward(ch, shift) ==
  LET up == Upper(ch) IN
  IF InALPH(up)
  THEN LET idx == (IndexALPH(up) + shift) % 26
           dec == ALPH[idx + 1]
       IN IF IsUpperChar(ch) THEN dec ELSE LowerAscii(dec)
  ELSE ch

\* One iteration of the loop over text: the character appended to out.
DecryptChar(ch, shift) ==
  LET up == Upper(ch) IN
  IF InALPH(up)
  THEN LET idx == (IndexALPH(up) - shift) % 26
           dec == ALPH[idx + 1]
       IN IF IsUpperChar(ch) THEN dec ELSE LowerAscii(dec)
  ELSE ch

caesar_decrypt(text, shift) == [i \in 1..Len(text) |-> DecryptChar(text[i], shift)]

----------------------------------------------------------------------------
(* Floats *)

Inf == [inf |-> TRUE, v |-> 0]

Float(milli) == [inf |-> FALSE, v |-> milli]

\* x < y on floats
FloatLess(x, y) == ~x.inf /\ (y.inf \/ x.v < y.v)

----------------------------------------------------------------------------
(* chi_square_english *)

\* EN_FREQ in thousandths of a percent, in ALPH order (A first)
EN_FREQ ==
  << 8167, 1492, 2782, 4253, 12702, 2228, 2015, 6094, 6966, 153, 772, 4025, 2406,
     6749, 7507, 1929, 95, 5987, 6327, 9056, 2758, 978, 2360, 150, 1974, 74 >>

RECURSIVE SumSeq(_)
SumSeq(s) == IF s = <<>> THEN 0 ELSE Head(s) + SumSeq(Tail(s))

\* EN_TOTAL = sum(EN_FREQ.values()), in the same unit
EN_TOTAL == SumSeq(EN_FREQ)

IsAsciiUpper(c) == c \in 65..90

\* letters = [ch for ch in text.upper() if ch in ALPH]
Letters(text) == SelectSeq(UpperText(text), IsAsciiUpper)

\* obs.get(L, 0) for the letter ALPH[l]
Obs(letters, l) == Cardinality({i \in 1..Len(letters) : letters[i] = ALPH[l]})

\* diff * diff / expected for one letter, in thousandths, with
\* expected = EN_FREQ[L] / EN_TOTAL * N = f*N/T, so that
\* (o - e)^2 / e = o*o*T/(f*N) - 2*o + f*N/T.  expected > 0 always (f > 0 and
\* N > 0 here), so the 1e-9 floor of the source is never taken.
ChiTerm(o, f, N) ==
  LET num == o * o * EN_TOTAL
      den == f * N
      a   == 1000 * (num \div den) + (1000 * (num % den)) \div den
      c   == (1000 * den) \div EN_TOTAL
  IN a - 2000 * o + c

\* Without the N == 0 return: every expected count is 0, every diff is 0, and
\* the sum of 0 / 1e-9 is 0.0.
chi_square_no_guard(text) ==
  LET letters == Letters(text)
      N == Len(letters)
  IN IF N = 0 THEN Float(0)
     ELSE Float(SumSeq([l \in 1..26 |-> ChiTerm(Obs(letters, l), EN_FREQ[l], N)]))

chi_square_english(text) ==
  LET letters == Letters(text)
      N == Len(letters)
  IN IF N = 0 THEN Inf
     ELSE Float(SumSeq([l \in 1..26 |-> ChiTerm(Obs(letters, l), EN_FREQ[l], N)]))

----------------------------------------------------------------------------
(* english_word_score *)

COMMON_WORDS ==
  { <<84,72,69>>, <<65,78,68>>, <<79,70>>, <<84,79>>, <<73,78>>, <<73,83>>,
    <<73,84>>, <<89,79,85>>, <<84,72,65,84>>, <<70,79,82>>, <<79,78>>,
    <<87,73,84,72>>, <<65,83>>, <<65,82,69>>, <<65,84>>, <<66,69>>, <<66,89>>,
    <<84,72,73,83>>, <<73>>, <<78,79,84>>, <<79,82>>, <<70,82,79,77>>,
    <<72,65,86,69>>, <<65,78>> }

\* "".join(ch if ch.isalpha() else " " for ch in s)
BlankNonAlpha(s) == [i \in 1..Len(s) |-> IF IsAlpha(s[i]) THEN s[i] ELSE 32]

RECURSIVE SplitFrom(_, _, _)
\* str.split(): the maximal runs of non-whitespace characters, in order.
\* cur is the run being read, acc the runs already closed.
SplitFrom(s, cur, acc) ==
  IF s = <<>> THEN (IF cur = <<>> THEN acc ELSE Append(acc, cur))
  ELSE IF IsSpace(Head(s))
       THEN SplitFrom(Tail(s), <<>>, IF cur = <<>> THEN acc ELSE Append(acc, cur))
       ELSE SplitFrom(Tail(s), Append(cur, Head(s)), acc)

Split(s) == SplitFrom(s, <<>>, <<>>)

\* sum(tok in COMMON_WORDS for tok in tokens)
CountWords(tokens) == Cardinality({i \in 1..Len(tokens) : tokens[i] \in COMMON_WORDS})

\* The non-letters blanked before the text is uppercased, not after.
TokensBlankFirst(text) == Split(UpperText(BlankNonAlpha(text)))

\* tokens: text.upper(), then every non-letter blanked, then split()
Tokens(text) == Split(BlankNonAlpha(UpperText(text)))

english_word_score(text) == CountWords(Tokens(text))

----------------------------------------------------------------------------
(* brute_force_caesar *)

\* The use_scoring flag ignored: every candidate scored.
CandidateAlwaysScored(ciphertext, use_scoring, shift) ==
  LET pt == caesar_decrypt(ciphertext, shift) IN
  [ score |-> << 0 - english_word_score(pt), chi_square_english(pt) >>,
    shift |-> shift,
    pt    |-> pt ]

\* One pass of the loop body: the tuple (score, shift, pt) appended.
Candidate(ciphertext, use_scoring, shift) ==
  LET pt == caesar_decrypt(ciphertext, shift) IN
  [ score |-> IF use_scoring
              THEN << 0 - english_word_score(pt), chi_square_english(pt) >>
              ELSE << 0, Float(0) >>,
    shift |-> shift,
    pt    |-> pt ]

\* The chi-square compared the wrong way round (higher first), no shift in the key.
KeyLessChiDescending(x, y) ==
  \/ x.score[1] < y.score[1]
  \/ /\ x.score[1] = y.score[1]
     /\ FloatLess(y.score[2], x.score[2])

\* (x[0], x[1]) < (y[0], y[1]): Python's lexicographic tuple comparison of
\* ((-hits, chi), shift); inf == inf, so two +inf fall through to the shift.

KeyLess(x, y) ==
  \/ x.score[1] < y.score[1]
  \/ /\ x.score[1] = y.score[1]
     /\ \/ FloatLess(x.score[2], y.score[2])
        \/ x.score[2] = y.score[2] /\ x.shift < y.shift

RECURSIVE Insert(_, _)
\* x placed after every element whose key is not greater (stable).
Insert(s, x) ==
  IF s = <<>> \/ ~KeyLess(x, s[Len(s)]) THEN Append(s, x)
  ELSE Append(Insert(SubSeq(s, 1, Len(s) - 1), x), s[Len(s)])

RECURSIVE SortFrom(_, _)
SortFrom(s, acc) == IF s = <<>> THEN acc ELSE SortFrom(Tail(s), Insert(acc, Head(s)))

\* candidates.sort(key=lambda x: (x[0], x[1])): a stable ascending sort
SortByKey(s) == SortFrom(s, <<>>)

\* candidates[:top_k - 1]: the slice one entry short.
SliceToExclusive(s, k) ==
  LET j == k - 1
      stop == IF j < 0 THEN (IF Len(s) + j < 0 THEN 0 ELSE Len(s) + j)
              ELSE (IF j > Len(s) THEN Len(s) ELSE j)
  IN SubSeq(s, 1, stop)

\* candidates[:top_k], Python slice semantics (a negative stop counts from the end)
SliceTo(s, k) ==
  LET stop == IF k < 0 THEN (IF Len(s) + k < 0 THEN 0 ELSE Len(s) + k)
              ELSE (IF k > Len(s) THEN Len(s) ELSE k)
  IN SubSeq(s, 1, stop)

\* the list after the for loop over range(26)
Candidates(ciphertext, use_scoring) ==
  [i \in 1..26 |-> Candidate(ciphertext, use_scoring, i - 1)]

\* candidates after candidates.sort(...)
Ranked(ciphertext, use_scoring) == SortByKey(Candidates(ciphertext, use_scoring))

----------------------------------------------------------------------------
(* Inputs *)

\* "WKLV LV D FDHVDU FLSKHU.", the demo ciphertext of main()
Demo ==
  << 87,75,76,86, 32, 76,86, 32, 68, 32, 70,68,72,86,68,85, 32, 70,76,83,75,72,85, 46 >>

\* "12345!!!"
NoLetters == << 49,50,51,52,53, 33,33,33 >>

\* I S s space, long s, j with caron, combining ypogegrammeni
Chars == {73, 83, 115, 32, 383, 496, 837}

\* "I I", "it's", the ligature st, dotless i, "Az", "1", the combining caron
Samples ==
  { Demo, NoLetters, <<73,32,73>>, <<105,116,39,115>>, <<64262>>, <<305>>,
    <<65,122>>, <<49>>, <<780>> }

Texts == UNION {[1..n -> Chars] : n \in 0..MaxLen} \cup Samples

\* shift arguments: the valid range and some values outside it
ShiftArgs == (0..25) \cup {-27, -1, 26, 27, 52}

\* top_k arguments
TopKs == {-1, 0, 1, 5, 26, 30}

----------------------------------------------------------------------------
(* State *)

VARIABLES
  mode,            \* "script": run as __main__;  "import": functions called by a client
  op,              \* the call made last: "start" before any
  raised,          \* TRUE iff the last call ended in an exception, not a return
  text,            \* the text argument of the call
  shift,           \* caesar_decrypt: its shift argument
  pt,              \* caesar_decrypt: the text returned
  shift2,          \* second caesar_decrypt, applied to pt: its shift argument
  pt2,             \* second caesar_decrypt: the text returned
  chi,             \* chi_square_english: the float returned
  hits,            \* english_word_score: the int returned
  use_scoring,     \* brute_force_caesar: argument
  top_k,           \* brute_force_caesar: argument
  top,             \* brute_force_caesar: candidates[:top_k] returned
  all_candidates,  \* brute_force_caesar: candidates returned
  best             \* main: top[0]

vars == << mode, op, raised, text, shift, pt, shift2, pt2, chi, hits,
           use_scoring, top_k, top, all_candidates, best >>

Init ==
  /\ mode \in {"script", "import"}
  /\ text \in (IF mode = "import" THEN Texts ELSE {<<>>})
  /\ op = "start"
  /\ raised = FALSE
  /\ shift = 0 /\ pt = <<>> /\ shift2 = 0 /\ pt2 = <<>>
  /\ chi = Float(0) /\ hits = 0
  /\ use_scoring = FALSE /\ top_k = 0 /\ top = <<>> /\ all_candidates = <<>>
  /\ best = [score |-> <<0, Float(0)>>, shift |-> 0, pt |-> <<>>]

\* A client calls caesar_decrypt(text, s).  The function has no raise and no
\* call that can fail, so it always returns.
CallDecrypt ==
  /\ mode = "import" /\ op = "start"
  /\ \E s \in ShiftArgs :
       /\ shift' = s
       /\ pt' = caesar_decrypt(text, s)
  /\ op' = "caesar_decrypt"
  /\ raised' = FALSE
  /\ UNCHANGED << mode, text, shift2, pt2, chi, hits, use_scoring, top_k, top,
                  all_candidates, best >>

\* The client feeds the text returned to caesar_decrypt again, with shift 0,
\* the same shift or the complementary shift 26 - shift.
CallDecryptAgain ==
  /\ mode = "import" /\ op = "caesar_decrypt"
  /\ \E s \in {0, shift, 26 - shift} :
       /\ shift2' = s
       /\ pt2' = caesar_decrypt(pt, s)
  /\ op' = "caesar_decrypt_again"
  /\ raised' = FALSE
  /\ UNCHANGED << mode, text, shift, pt, chi, hits, use_scoring, top_k, top,
                  all_candidates, best >>

CallChiSquare ==
  /\ mode = "import" /\ op = "start"
  /\ chi' = chi_square_english(text)
  /\ op' = "chi_square_english"
  /\ raised' = FALSE
  /\ UNCHANGED << mode, text, shift, pt, shift2, pt2, hits, use_scoring, top_k, top,
                  all_candidates, best >>

CallWordScore ==
  /\ mode = "import" /\ op = "start"
  /\ hits' = english_word_score(text)
  /\ op' = "english_word_score"
  /\ raised' = FALSE
  /\ UNCHANGED << mode, text, shift, pt, shift2, pt2, chi, use_scoring, top_k, top,
                  all_candidates, best >>

\* A client calls brute_force_caesar(text, u, k), which returns
\* (candidates[:top_k], candidates): no validation of top_k, no raise.
CallBruteForce ==
  /\ mode = "import" /\ op = "start"
  /\ \E u \in BOOLEAN :
       LET candidates == Ranked(text, u) IN
       \E k \in TopKs :
         /\ use_scoring' = u
         /\ top_k' = k
         /\ top' = SliceTo(candidates, k)
         /\ all_candidates' = candidates
  /\ op' = "brute_force_caesar"
  /\ raised' = FALSE
  /\ UNCHANGED << mode, text, shift, pt, shift2, pt2, chi, hits, best >>

\* main(): the demo run, up to best_score, best_shift, best_plain = top[0]
\* (the rest only prints).
Main ==
  /\ mode = "script" /\ op = "start"
  /\ LET candidates == Ranked(Demo, TRUE) IN
       /\ text' = Demo
       /\ use_scoring' = TRUE
       /\ top_k' = 5
       /\ top' = SliceTo(candidates, 5)
       /\ all_candidates' = candidates
       /\ best' = SliceTo(candidates, 5)[1]
  /\ op' = "main"
  /\ raised' = FALSE
  /\ UNCHANGED << mode, shift, pt, shift2, pt2, chi, hits >>

Next ==
  \/ CallDecrypt
  \/ CallDecryptAgain
  \/ CallChiSquare
  \/ CallWordScore
  \/ CallBruteForce
  \/ Main

Spec == Init /\ [][Next]_vars

----------------------------------------------------------------------------
(* Properties *)

\* "THIS IS A CAESAR CIPHER."
DemoPlain ==
  << 84,72,73,83, 32, 73,83, 32, 65, 32, 67,65,69,83,65,82, 32, 67,73,80,72,69,82, 46 >>

Ranked26 == op \in {"brute_force_caesar", "main"}

NoAlpha(t) == \A i \in 1..Len(t) : ~IsAlpha(t[i])

\* ch.islower() on the code points of the model
IsLowerLetter(c) == c \in 97..122 \/ c \in {305, 383, 64262, 496}

\* lexical hits of a candidate: the negated first score field
HitsOf(c) == 0 - c.score[1]

\* The maximal runs of consecutive letters of t, as index pairs <<i, j>>.
LetterRuns(t) ==
  { r \in (1..Len(t)) \X (1..Len(t)) :
      /\ r[1] <= r[2]
      /\ \A k \in r[1]..r[2] : IsAlpha(t[k])
      /\ r[1] = 1 \/ ~IsAlpha(t[r[1] - 1])
      /\ r[2] = Len(t) \/ ~IsAlpha(t[r[2] + 1]) }

\* Number of letter runs of t whose uppercased form is a common word.
RunHitsUppercased(t) ==
  Cardinality({ r \in LetterRuns(t) : UpperText(SubSeq(t, r[1], r[2])) \in COMMON_WORDS })

\* Number of letter runs of t that are, as they stand, a common word.
RunHits(t) ==
  Cardinality({ r \in LetterRuns(t) : SubSeq(t, r[1], r[2]) \in COMMON_WORDS })

\* C1: for every top_k >= 1 the ranking returns 26 entries whose shifts are
\* exactly 0..25, top is the prefix of all_candidates of length min(top_k, 26),
\* and with top_k = 30 top has 26 entries and equals all_candidates.
C1_RankShape ==
  (Ranked26 /\ top_k >= 1) =>
    /\ Len(all_candidates) = 26
    /\ {all_candidates[i].shift : i \in 1..26} = 0..25
    /\ Len(top) = (IF top_k < 26 THEN top_k ELSE 26)
    /\ \A i \in 1..Len(top) : top[i] = all_candidates[i]
    /\ top_k = 30 => (Len(top) = 26 /\ top = all_candidates)

C1_Witness ==
  /\ op = "brute_force_caesar" /\ use_scoring /\ top_k = 30
  /\ Len(top) = 26 /\ top = all_candidates
  /\ all_candidates[1].shift # 0

\* C2: with scoring, adjacent entries a, b of all_candidates are strictly
\* ordered: more hits first, then lower chi-square, then (hits and chi-square
\* equal, +inf included) smaller shift.
C2_StrictOrder ==
  (Ranked26 /\ use_scoring) =>
    \A i \in 1..(Len(all_candidates) - 1) :
      LET a == all_candidates[i]
          b == all_candidates[i + 1]
          ca == a.score[2]
          cb == b.score[2]
      IN \/ HitsOf(a) > HitsOf(b)
         \/ /\ HitsOf(a) = HitsOf(b)
            /\ \/ ~ca.inf /\ cb.inf
               \/ ~ca.inf /\ ~cb.inf /\ ca.v < cb.v
         \/ /\ HitsOf(a) = HitsOf(b)
            /\ ca.inf = cb.inf
            /\ ca.inf \/ ca.v = cb.v
            /\ a.shift < b.shift

C2_Witness ==
  /\ op = "brute_force_caesar" /\ use_scoring
  /\ \E i \in 1..25 : HitsOf(all_candidates[i]) > HitsOf(all_candidates[i + 1])
  /\ \E i \in 1..25 :
       /\ HitsOf(all_candidates[i]) = HitsOf(all_candidates[i + 1])
       /\ all_candidates[i].score[2].v < all_candidates[i + 1].score[2].v
       /\ all_candidates[i].shift > all_candidates[i + 1].shift

\* C3: for the demo ciphertext with scoring, the first entry has shift 3 and
\* plaintext "THIS IS A CAESAR CIPHER.", and every other entry has strictly
\* fewer lexical hits; main's best guess is that entry.
C3_DemoTop ==
  (Ranked26 /\ use_scoring /\ text = Demo) =>
    /\ all_candidates[1].shift = 3
    /\ all_candidates[1].pt = DemoPlain
    /\ \A i \in 2..26 : HitsOf(all_candidates[i]) < HitsOf(all_candidates[1])
    /\ top_k >= 1 => top[1] = all_candidates[1]
    /\ op = "main" => (best.shift = 3 /\ best.pt = DemoPlain)

C3_Witness == op = "main" /\ best.shift = 3 /\ HitsOf(best) = 2

\* C4: decrypting by s in 1..25 and then by 26 - s gives the text back, and
\* decrypting by 0 returns the text unchanged.
C4_RoundTrip ==
  /\ (op = "caesar_decrypt_again" /\ shift \in 1..25 /\ shift2 = 26 - shift) => pt2 = text
  /\ (op = "caesar_decrypt" /\ shift = 0) => pt = text

\* C5: for a shift in 0..25 the output has the length of the text, every
\* non-alphabetic character is unchanged in place, and an uppercase
\* (lowercase) letter is replaced by an uppercase (lowercase) letter.
C5_ClassPreserved ==
  (op = "caesar_decrypt" /\ shift \in 0..25) =>
    /\ Len(pt) = Len(text)
    /\ \A i \in 1..Len(text) :
         /\ ~IsAlpha(text[i]) => pt[i] = text[i]
         /\ (IsAlpha(text[i]) /\ IsUpperChar(text[i])) => (IsAlpha(pt[i]) /\ IsUpperChar(pt[i]))
         /\ IsLowerLetter(text[i]) => IsLowerLetter(pt[i])

C5_Witness ==
  /\ op = "caesar_decrypt" /\ shift = 20 /\ text = <<105, 116, 39, 115>>
  /\ pt = <<111, 122, 39, 121>>

\* C6: a call of caesar_decrypt with a shift outside 0..25 ends in an error,
\* not in a returned text.
C6_InvalidShiftRaises ==
  (op = "caesar_decrypt" /\ shift \notin 0..25) => raised

\* C7: a call of brute_force_caesar with top_k <= 0 ends in an error: it
\* returns no candidates at all.
C7_InvalidTopKRaises ==
  (op = "brute_force_caesar" /\ top_k <= 0) =>
    (raised /\ top = <<>> /\ all_candidates = <<>>)

\* C8: without scoring every candidate has the same score, and entry i (from
\* 0) has shift i and plaintext caesar_decrypt(text, i).
C8_UnscoredOrder ==
  (op = "brute_force_caesar" /\ ~use_scoring) =>
    /\ Len(all_candidates) = 26
    /\ \A i \in 1..26 :
         /\ all_candidates[i].shift = i - 1
         /\ all_candidates[i].pt = caesar_decrypt(text, i - 1)
         /\ all_candidates[i].score = all_candidates[1].score

C8_Witness ==
  /\ op = "brute_force_caesar" /\ ~use_scoring /\ text = Demo
  /\ all_candidates[4].pt = DemoPlain
  /\ all_candidates[1].pt = Demo

\* C9: for a text without any alphabetic character, chi-square is +inf and the
\* hit count 0; with scoring all 26 candidates are returned with that score,
\* in ascending shift order.
C9_NoLettersFallback ==
  NoAlpha(text) =>
    /\ op = "chi_square_english" => chi = Inf
    /\ op = "english_word_score" => hits = 0
    /\ (op = "brute_force_caesar" /\ use_scoring) =>
         /\ Len(all_candidates) = 26
         /\ \A i \in 1..26 :
              /\ all_candidates[i].score = <<0, Inf>>
              /\ all_candidates[i].shift = i - 1
         /\ top_k >= 1 => top[1].shift = 0

C9_Witness ==
  /\ op = "brute_force_caesar" /\ use_scoring /\ text = NoLetters /\ top_k = 5
  /\ top[1].shift = 0 /\ all_candidates[26].score[2].inf

\* C10 as stated: the score is the number of letter runs of the text whose
\* uppercased form is a common word, and it equals the score of text.upper().
C10_RunsOfText ==
  op = "english_word_score" =>
    /\ hits = RunHitsUppercased(text)
    /\ hits = english_word_score(UpperText(text))

\* C10 amended: the score is the number of letter runs of text.upper() that
\* are a common word, and it equals the score of text.upper().
C10_RunsOfUpper ==
  op = "english_word_score" =>
    /\ hits = RunHits(UpperText(text))
    /\ hits = english_word_score(UpperText(text))

C10_Witness ==
  /\ op = "english_word_score" /\ text = <<496, 73>> /\ hits = 1
  /\ RunHitsUppercased(text) = 0

====
